---- MODULE Spec2Model ----
(***************************************************************************)
(* Model of src/python/src/mcp_server/health_proxy.py: the HealthProxy     *)
(* frontend (health_handler, proxy_handler), the supervised MCP child      *)
(* process and the life cycle of main()/start().                           *)
(*                                                                         *)
(* Strings whose letter case matters (header names) are sequences of       *)
(* one-character strings, so that str.lower() is computed, not assumed.    *)
(* An optional value (Python None or a value) is a sequence of length 0    *)
(* or 1.                                                                   *)
(***************************************************************************)
EXTENDS Integers, Sequences, FiniteSets, TLC

\* ------------------------------------------------------------------ bounds

\* Connections the frontend handles at the same time.
MaxReq == 2
\* Header entries of one inbound request or of one upstream response.
MaxHeaders == 2
\* Lines the child writes to its stdout.
MaxLines == 2

\* ------------------------------------------------------- program constants

PROXY_PORT == 8051
MCP_PORT == 8052
\* ClientTimeout(total=30)
TIMEOUT_TOTAL == 30
\* asyncio.sleep(2)
SETTLE_DELAY == 2
\* self.mcp_process.wait(timeout=5)
WAIT_TIMEOUT == 5

\* ------------------------------------------------------------------- str()

Digits == <<"0","1","2","3","4","5","6","7","8","9">>

RECURSIVE Str(_)
\* str(n), and the formatting of an int in an f-string: the decimal digits of
\* a natural number, most significant first.
Str(n) ==
  IF n < 10 THEN <<Digits[n + 1]>>
  ELSE Str(n \div 10) \o <<Digits[(n % 10) + 1]>>

\* ------------------------------------------------------------ str.lower()

UpperLetters ==
  <<"A","B","C","D","E","F","G","H","I","J","K","L","M",
    "N","O","P","Q","R","S","T","U","V","W","X","Y","Z">>

LowerLetters ==
  <<"a","b","c","d","e","f","g","h","i","j","k","l","m",
    "n","o","p","q","r","s","t","u","v","w","x","y","z">>

\* One character of str.lower(): an upper-case letter maps to its lower-case
\* letter, every other character to itself.
LowerChar(c) ==
  IF \E n \in 1..26 : UpperLetters[n] = c
  THEN LowerLetters[CHOOSE n \in 1..26 : UpperLetters[n] = c]
  ELSE c

\* k.lower()
Lower(k) == [n \in 1..Len(k) |-> LowerChar(k[n])]

\* ------------------------------------------------------ header name lists

\* ['host', 'connection', 'keep-alive', 'transfer-encoding', 'upgrade']
HopByHopRequest ==
  { <<"h","o","s","t">>,
    <<"c","o","n","n","e","c","t","i","o","n">>,
    <<"k","e","e","p","-","a","l","i","v","e">>,
    <<"t","r","a","n","s","f","e","r","-","e","n","c","o","d","i","n","g">>,
    <<"u","p","g","r","a","d","e">> }

\* ['connection', 'keep-alive', 'transfer-encoding', 'content-encoding']
HopByHopResponse ==
  { <<"c","o","n","n","e","c","t","i","o","n">>,
    <<"k","e","e","p","-","a","l","i","v","e">>,
    <<"t","r","a","n","s","f","e","r","-","e","n","c","o","d","i","n","g">>,
    <<"c","o","n","t","e","n","t","-","e","n","c","o","d","i","n","g">> }

\* ------------------------------------------------- the dict comprehensions

\* d[k] = v on a Python dict kept as the sequence of its (key, value) items in
\* insertion order: an existing key (the same string, letter case included)
\* keeps its place and takes the new value, a new key is appended.
DictPut(d, k, v) ==
  IF \E n \in 1..Len(d) : d[n][1] = k
  THEN [n \in 1..Len(d) |-> IF d[n][1] = k THEN <<k, v>> ELSE d[n]]
  ELSE Append(d, <<k, v>>)

RECURSIVE DictComprehension(_, _, _)
\* {k: v for k, v in items if k.lower() not in excluded}, built left to right
\* from the multi-dict's items (one per header line, repeated names included).
DictComprehension(items, excluded, acc) ==
  IF items = <<>> THEN acc
  ELSE LET k == Head(items)[1]
           v == Head(items)[2]
       IN DictComprehension(Tail(items), excluded,
            IF Lower(k) \in excluded THEN acc ELSE DictPut(acc, k, v))

RECURSIVE DictComprehensionExact(_, _, _)
\* The same comprehension with "k not in excluded": no lower().
DictComprehensionExact(items, excluded, acc) ==
  IF items = <<>> THEN acc
  ELSE LET k == Head(items)[1]
           v == Head(items)[2]
       IN DictComprehensionExact(Tail(items), excluded,
            IF k \in excluded THEN acc ELSE DictPut(acc, k, v))

\* The request filter comparing the names as they were sent.
FilterRequestHeadersCaseSensitive(items) ==
  DictComprehensionExact(items, HopByHopRequest, <<>>)

\* The response filter using the request's list of names.
FilterResponseHeadersRequestList(items) ==
  DictComprehension(items, HopByHopRequest, <<>>)

\* headers = {k: v for k, v in request.headers.items() if k.lower() not in [...]}
FilterRequestHeaders(items) == DictComprehension(items, HopByHopRequest, <<>>)

\* resp_headers = {k: v for k, v in response.headers.items() if k.lower() not in [...]}
FilterResponseHeaders(items) == DictComprehension(items, HopByHopResponse, <<>>)

\* ------------------------------------------------------------------ inputs

SeqsUpTo(S, n) == UNION { [1..m -> S] : m \in 0..n }

Range(f) == { f[x] : x \in DOMAIN f }

\* Header names as clients and servers write them, in several letter cases.
NameHost             == <<"H","o","s","t">>
NameConnectionLower  == <<"c","o","n","n","e","c","t","i","o","n">>
NameConnection       == <<"C","o","n","n","e","c","t","i","o","n">>
NameKeepAliveUpper   == <<"K","E","E","P","-","A","L","I","V","E">>
NameKeepAliveLower   == <<"k","e","e","p","-","a","l","i","v","e">>
NameTransferEncoding == <<"T","r","a","n","s","f","e","r","-","E","n","c","o","d","i","n","g">>
NameTransferEncodingUpper ==
  <<"T","R","A","N","S","F","E","R","-","E","N","C","O","D","I","N","G">>
NameUpgradeLower     == <<"u","p","g","r","a","d","e">>
NameUpgrade          == <<"U","p","g","r","a","d","e">>
NameContentEncoding  == <<"C","o","n","t","e","n","t","-","E","n","c","o","d","i","n","g">>
NameContentType      == <<"C","o","n","t","e","n","t","-","T","y","p","e">>
NameXCustom          == <<"X","-","C","u","s","t","o","m">>
NameSetCookie        == <<"S","e","t","-","C","o","o","k","i","e">>

\* The header lines an inbound request may carry (request.headers.items()).
RequestHeaderPool ==
  { <<NameHost, "a">>, <<NameConnectionLower, "a">>, <<NameKeepAliveUpper, "a">>,
    <<NameTransferEncoding, "a">>, <<NameUpgradeLower, "a">>,
    <<NameContentEncoding, "a">>,
    <<NameXCustom, "a">>, <<NameXCustom, "b">> }

\* The header lines an upstream response may carry (response.headers.items()).
ResponseHeaderPool ==
  { <<NameConnection, "a">>, <<NameKeepAliveLower, "a">>,
    <<NameTransferEncodingUpper, "a">>, <<NameContentEncoding, "a">>,
    <<NameUpgrade, "a">>,
    <<NameSetCookie, "a">>, <<NameSetCookie, "b">> }

Methods == {"GET", "POST"}
Paths == {"/health", "/mcp"}
\* The query string of request.path_qs, empty or not.
Queries == {"", "?x=1"}
\* request.body_exists is false (<<>>) or the body bytes are read.
RequestBodies == {<<>>, <<"b">>}
\* Statuses the backend may answer with: success, redirect, client error and
\* a status the proxy also produces itself.
UpstreamStatuses == {200, 302, 404, 504}
UpstreamBodies == {"", "x"}

\* Inbound requests with every header list up to MaxHeaders lines.
AllRequests ==
  [method : Methods, path : Paths, query : Queries,
   headers : SeqsUpTo(RequestHeaderPool, MaxHeaders), body : RequestBodies]

\* Status line and headers of upstream responses, every header list up to
\* MaxHeaders lines.
AllUpstream ==
  [status : UpstreamStatuses, headers : SeqsUpTo(ResponseHeaderPool, MaxHeaders)]

\* The inputs of the concurrent system: the same requests and responses with
\* fixed header lists and no query string.
SysRequests ==
  [method : Methods, path : Paths, query : {""},
   headers : { <<>>, << <<NameHost, "a">>, <<NameXCustom, "a">> >> },
   body : RequestBodies]

\* The requests of the liveness specification: every method and path, without
\* headers or body, which play no part in whether a request is answered.
LiveRequests ==
  [method : Methods, path : Paths, query : {""}, headers : {<<>>}, body : {<<>>}]

SysUpstream ==
  [status : UpstreamStatuses,
   headers : { << <<NameConnection, "a">>, <<NameContentType, "a">> >> }]

\* The variables of os.environ the model follows.
EnvKeys == {"PATH", "ARCHON_MCP_PORT"}

\* Values a variable can have in the environment the proxy is started in:
\* unset, the public port, a path.
EnvValues == {<<>>, <<Str(PROXY_PORT)>>, << <<"/", "b", "i", "n">> >>}

Environments == [EnvKeys -> EnvValues]

DefaultEnviron ==
  [k \in EnvKeys |-> IF k = "PATH" THEN << <<"/", "b", "i", "n">> >> ELSE <<>>]

\* ---------------------------------------------------------------- log lines

\* Lines of the child's output, as sequences of characters with their newline.
\* the access-log line of a GET /health answered 404
LineHealth404 ==
  <<"G", "E", "T", " ", "/", "h", "e", "a", "l", "t", "h", " ", "4", "0", "4", "\n">>
\* a GET /health that was not answered 404
LineHealth200 ==
  <<"G", "E", "T", " ", "/", "h", "e", "a", "l", "t", "h", " ", "2", "0", "0", "\n">>
\* a 404 for another path, with trailing blanks
LineMcp404 ==
  <<"G", "E", "T", " ", "/", "m", "c", "p", " ", "4", "0", "4", " ", "\n">>
\* both texts, the status first
Line404Health ==
  <<"4", "0", "4", " ", "G", "E", "T", " ", "/", "h", "e", "a", "l", "t", "h", "\n">>
\* neither text
LineOther ==
  <<"o", "k", "\n">>

LogLines == {LineHealth404, LineHealth200, LineMcp404, Line404Health, LineOther}

\* sub in line
Contains(line, sub) ==
  \E k \in 0..(Len(line) - Len(sub)) : SubSeq(line, k + 1, k + Len(sub)) = sub

Whitespace == {" ", "\n", "\t", "\r"}

RECURSIVE RStrip(_)
\* line.rstrip()
RStrip(line) ==
  IF line # <<>> /\ line[Len(line)] \in Whitespace
  THEN RStrip(SubSeq(line, 1, Len(line) - 1))
  ELSE line

\* The test of log_mcp_output with `and` in the place of `or`.
ShouldPrintNeither(line) ==
  /\ ~Contains(line, <<"G", "E", "T", " ", "/", "h", "e", "a", "l", "t", "h">>)
  /\ ~Contains(line, <<"4", "0", "4">>)

\* if "GET /health" not in line or "404" not in line
ShouldPrint(line) ==
  \/ ~Contains(line, <<"G", "E", "T", " ", "/", "h", "e", "a", "l", "t", "h">>)
  \/ ~Contains(line, <<"4", "0", "4">>)

\* The requests of the test application: GET /health, GET /mcp, POST /api/test
\* and their like, with the header lists of SysRequests.
TestRequests ==
  [method : Methods, path : Paths \cup {"/api/test"}, query : {""},
   headers : { <<>>, << <<NameHost, "a">>, <<NameXCustom, "a">> >> },
   body : RequestBodies]

\* ------------------------------------------------------------------- state

VARIABLES
  phase,           \* main thread: "created", "launched", "settling", "binding",
                   \* "serving", "waiting", "exited"
  mcp_process,     \* self.mcp_process: "None" or "child"
  backend,         \* the child: "none", "initialising", "running", "hung", "exited"
  terminate_calls, \* calls of mcp_process.terminate()
  req,             \* per connection: the handler's position and its locals
  spawn_count,     \* children created by subprocess.Popen
  os_environ,      \* os.environ of the proxy process
  child_env,       \* env= handed to Popen: <<>> before the call, then <<env>>
  slept,           \* seconds of asyncio.sleep(2) that have passed
  waited,          \* seconds of mcp_process.wait(timeout=5) that have passed
  exit_status,     \* how main() ended: "running", "exit0", "returned",
                   \* "OSError", "BindOSError", "TimeoutExpired"
  pipe,            \* lines the child wrote to its stdout, not read yet
  drained,         \* lines log_mcp_output has read, oldest first
  printed,         \* lines log_mcp_output has printed, oldest first
  log_thread       \* the daemon thread: "none", "running", "ended"

\* What start() and main() keep besides the handle, and the log pipe.
supervisor == <<spawn_count, os_environ, child_env, slept, waited, exit_status>>
logs == <<pipe, drained, printed, log_thread>>

vars == <<phase, mcp_process, backend, terminate_calls, req, supervisor, logs>>

Slots == 1..MaxReq

\* A connection no handler is running on.
FreeSlot ==
  [pc |-> "free", handler |-> "none", method |-> "", path |-> "", query |-> "",
   in_headers |-> <<>>,
   in_body |-> <<>>, out |-> <<>>, attempts |-> 0, event |-> "none",
   raised_in |-> "", up |-> <<>>, resp |-> <<>>]

\* HealthProxy() has been constructed and main() has installed its signal
\* handlers: no child, nothing bound, no request.
InitWith(environments) ==
  /\ phase = "created"
  /\ mcp_process = "None"
  /\ backend = "none"
  /\ terminate_calls = 0
  /\ req = [i \in Slots |-> FreeSlot]
  /\ spawn_count = 0
  /\ os_environ \in environments
  /\ child_env = <<>>
  /\ slept = 0
  /\ waited = 0
  /\ exit_status = "running"
  /\ pipe = <<>>
  /\ drained = <<>>
  /\ printed = <<>>
  /\ log_thread = "none"

\* The proxy is started in one environment that does not set ARCHON_MCP_PORT.
Init == InitWith({DefaultEnviron})

\* The proxy is started in any environment.
InitEnv == InitWith(Environments)

\* ------------------------------------------------------------------ routes

\* setup_routes: GET /health goes to health_handler, every other method and
\* path to proxy_handler.
Route(method, path) ==
  IF method = "GET" /\ path = "/health" THEN "health" ELSE "proxy"

\* ------------------------------------------------------------- responses

\* A liveness answer that looks at the back end.
HealthResponseOfBackend ==
  IF backend = "running"
  THEN [status |-> 200, headers |-> <<>>, content_type |-> "application/json",
        body |-> "{\"status\": \"healthy\", \"service\": \"mcp-server\", \"proxy\": \"active\"}"]
  ELSE [status |-> 503, headers |-> <<>>, content_type |-> "application/json",
        body |-> "{\"status\": \"unhealthy\", \"service\": \"mcp-server\", \"proxy\": \"active\"}"]

\* web.json_response({"status": "healthy", "service": "mcp-server", "proxy": "active"})
HealthResponse ==
  [status |-> 200, headers |-> <<>>, content_type |-> "application/json",
   body |-> "{\"status\": \"healthy\", \"service\": \"mcp-server\", \"proxy\": \"active\"}"]

\* web.Response(text="Gateway Timeout", status=504)
GatewayTimeout ==
  [status |-> 504, headers |-> <<>>, content_type |-> "text/plain",
   body |-> "Gateway Timeout"]

\* An answer of the frontend as if no route had matched.
BadGatewayNotFound ==
  [status |-> 404, headers |-> <<>>, content_type |-> "text/plain",
   body |-> "404: Not Found"]

\* web.Response(text="Bad Gateway", status=502)
BadGateway ==
  [status |-> 502, headers |-> <<>>, content_type |-> "text/plain",
   body |-> "Bad Gateway"]

\* The answer of the web server for a handler that ends with an exception.
InternalServerError ==
  [status |-> 500, headers |-> <<>>, content_type |-> "text/plain",
   body |-> "500 Internal Server Error"]

\* A forgotten "except Exception": only the timeout is caught.
CaughtOnlyTimeout(event) == event = "timeout"

\* What the try statement of proxy_handler catches: asyncio.TimeoutError, and
\* every other Exception of the outbound attempt.
Caught(event) == event \in {"timeout", "error"}

\* The two clauses swapped.
ErrorResponseSwapped(event) ==
  IF event = "timeout" THEN BadGateway ELSE GatewayTimeout

\* Every failure reported as a timeout.
ErrorResponseAlwaysTimeout(event) == GatewayTimeout

\* The except clauses of proxy_handler: asyncio.TimeoutError gives 504, any
\* other Exception gives 502.
ErrorResponse(event) ==
  IF event = "timeout" THEN GatewayTimeout ELSE BadGateway

\* The status argument left out: web.Response answers 200.
RelayedResponseStatusDropped(status, items, body) ==
  [status |-> 200, headers |-> FilterResponseHeaders(items),
   content_type |-> "headers", body |-> body]

\* web.Response(body=resp_body, status=response.status, headers=resp_headers);
\* the content type is whatever the copied headers say.
RelayedResponse(status, items, body) ==
  [status |-> status, headers |-> FilterResponseHeaders(items),
   content_type |-> "headers", body |-> body]

\* request.path in the place of request.path_qs: the query string is lost.
TargetUrlNoQuery(r) == <<"http://localhost:", Str(MCP_PORT), r.path, "">>

\* target_url = f"http://localhost:{MCP_PORT}{request.path_qs}", kept as its
\* parts: the fixed prefix, the port as formatted, the path and the query.
TargetUrl(r) == <<"http://localhost:", Str(MCP_PORT), r.path, r.query>>

\* allow_redirects left at the client's default.
OutboundRequestFollowingRedirects(r) ==
  [method |-> r.method,
   url |-> TargetUrl(r),
   headers |-> FilterRequestHeaders(r.headers),
   data |-> r.body,
   allow_redirects |-> TRUE,
   timeout |-> TIMEOUT_TOTAL]

\* The arguments of session.request(...).
OutboundRequest(r) ==
  [method |-> r.method,
   url |-> TargetUrl(r),
   headers |-> FilterRequestHeaders(r.headers),
   data |-> r.body,
   allow_redirects |-> FALSE,
   timeout |-> TIMEOUT_TOTAL]

\* Outbound requests the client session makes for one session.request(...)
\* call after its response arrived: with allow_redirects=False it never
\* issues a second one, whatever the status.
FollowUps(allow_redirects, status) ==
  IF allow_redirects /\ status \in 300..399 THEN 1 ELSE 0

\* ------------------------------------------------ the supervised back end

\* What Popen is given and what the proxy keeps, were env built without copy().
PopenEnvShared(environ) ==
  [own |-> [environ EXCEPT !["ARCHON_MCP_PORT"] = <<Str(MCP_PORT)>>],
   child |-> [environ EXCEPT !["ARCHON_MCP_PORT"] = <<Str(MCP_PORT)>>]]

\* env = os.environ.copy(); env['ARCHON_MCP_PORT'] = str(MCP_PORT): the
\* environment of the proxy after the two statements, and the one of the child.
PopenEnv(environ) ==
  [own |-> environ,
   child |-> [environ EXCEPT !["ARCHON_MCP_PORT"] = <<Str(MCP_PORT)>>]]

\* start_mcp_server up to the moment subprocess.Popen has created the child:
\* the child runs, the Popen object is not yet stored in self.mcp_process.
StartMcpServer ==
  /\ phase = "created"
  /\ phase' = "launched"
  /\ backend' = "initialising"
  /\ spawn_count' = spawn_count + 1
  /\ os_environ' = PopenEnv(os_environ).own
  /\ child_env' = <<PopenEnv(os_environ).child>>
  /\ UNCHANGED <<mcp_process, terminate_calls, req, slept, waited, exit_status, logs>>

\* subprocess.Popen raises (the interpreter cannot be executed, fork fails):
\* nothing in start_mcp_server, start() or main() catches the OSError, main's
\* finally clause finds no handle, and the process ends with the traceback.
PopenFails ==
  /\ phase = "created"
  /\ phase' = "exited"
  /\ exit_status' = "OSError"
  /\ UNCHANGED <<mcp_process, backend, terminate_calls, req, spawn_count,
                 os_environ, child_env, slept, waited, logs>>

\* The rest of start_mcp_server: Popen returns, the object is assigned to
\* self.mcp_process, the daemon log thread is started; start() goes on to
\* await asyncio.sleep(2).
StoreHandle ==
  /\ phase = "launched"
  /\ phase' = "settling"
  /\ mcp_process' = "child"
  /\ log_thread' = "running"
  /\ UNCHANGED <<backend, terminate_calls, req, supervisor, pipe, drained, printed>>

\* One second of asyncio.sleep(2) passes.
Sleep ==
  /\ phase = "settling"
  /\ slept < SETTLE_DELAY
  /\ slept' = slept + 1
  /\ UNCHANGED <<phase, mcp_process, backend, terminate_calls, req, spawn_count,
                 os_environ, child_env, waited, exit_status, logs>>

\* asyncio.sleep(2) returns; start() goes on to set up the runner and the site.
SleepReturns ==
  /\ phase = "settling"
  /\ slept = SETTLE_DELAY
  /\ phase' = "binding"
  /\ UNCHANGED <<mcp_process, backend, terminate_calls, req, supervisor, logs>>

\* A start() that probes the back end before it binds.
MayBindWhenReady(ph, child) == ph = "binding" /\ child = "running"

\* start(): what runner.setup() and site.start() wait for: the settle delay is
\* over; the state of the child is not looked at.
MayBind(ph, child) == ph = "binding"

\* start(): runner.setup() and site.start() bind 0.0.0.0:PROXY_PORT.
SiteStart ==
  /\ MayBind(phase, backend)
  /\ phase' = "serving"
  /\ UNCHANGED <<mcp_process, backend, terminate_calls, req, supervisor, logs>>

\* A main() without its finally clause: the exception ends the process and
\* the child is left alone.
SiteStartFailsUnhandled ==
  /\ phase = "binding"
  /\ phase' = "exited"
  /\ exit_status' = "BindOSError"
  /\ UNCHANGED <<mcp_process, backend, terminate_calls, req, spawn_count,
                 os_environ, child_env, slept, waited, logs>>

\* start(): site.start() raises (the public port is taken): the OSError leaves
\* start() and asyncio.run(), main() handles only KeyboardInterrupt, its
\* finally clause calls terminate() on the stored handle and the process ends
\* with the traceback.
SiteStartFails ==
  /\ phase = "binding"
  /\ phase' = "exited"
  /\ exit_status' = "BindOSError"
  /\ terminate_calls' = IF mcp_process # "None" THEN terminate_calls + 1
                        ELSE terminate_calls
  /\ UNCHANGED <<mcp_process, backend, req, spawn_count, os_environ, child_env,
                 slept, waited, logs>>

\* The child finished initialising and listens on the internal port.
BackendReady ==
  /\ backend = "initialising"
  /\ backend' = "running"
  /\ UNCHANGED <<phase, mcp_process, terminate_calls, req, supervisor, logs>>

\* The child stops answering while keeping its port open.
BackendHang ==
  /\ backend = "running"
  /\ backend' = "hung"
  /\ UNCHANGED <<phase, mcp_process, terminate_calls, req, supervisor, logs>>

\* The child process ends, at any time after its launch; nothing in the proxy
\* watches for it.
BackendExit ==
  /\ backend \in {"initialising", "running", "hung"}
  /\ backend' = "exited"
  /\ UNCHANGED <<phase, mcp_process, terminate_calls, req, supervisor, logs>>

\* main(): a SIGINT or SIGTERM runs signal_handler, whose sys.exit(0) unwinds
\* whatever the main thread is in (Popen, asyncio.run() with every connection,
\* the blocking wait) into the finally clause, which calls terminate() when
\* self.mcp_process holds a handle; the process then ends.
Shutdown ==
  /\ phase \in {"created", "launched", "settling", "binding", "serving", "waiting"}
  /\ phase' = "exited"
  /\ exit_status' = "exit0"
  /\ terminate_calls' = IF mcp_process # "None" THEN terminate_calls + 1
                        ELSE terminate_calls
  /\ req' = [i \in Slots |-> FreeSlot]
  /\ UNCHANGED <<mcp_process, backend, spawn_count, os_environ, child_env,
                 slept, waited, logs>>

\* start(): a KeyboardInterrupt is raised at `await asyncio.Event().wait()`;
\* the except clause calls terminate() and enters wait(timeout=5), a blocking
\* call under which the event loop runs no handler again.
KeyboardInterrupt ==
  /\ phase = "serving"
  /\ phase' = "waiting"
  /\ terminate_calls' = terminate_calls + 1
  /\ req' = [i \in Slots |-> FreeSlot]
  /\ UNCHANGED <<mcp_process, backend, supervisor, logs>>

\* One second of wait(timeout=5) passes with the child still there.
Wait ==
  /\ phase = "waiting"
  /\ backend # "exited"
  /\ waited < WAIT_TIMEOUT
  /\ waited' = waited + 1
  /\ UNCHANGED <<phase, mcp_process, backend, terminate_calls, req, spawn_count,
                 os_environ, child_env, slept, exit_status, logs>>

\* The child has exited: wait(timeout=5) returns, start() returns,
\* asyncio.run() returns and main's finally clause calls terminate().
WaitReturns ==
  /\ phase = "waiting"
  /\ backend = "exited"
  /\ phase' = "exited"
  /\ exit_status' = "returned"
  /\ terminate_calls' = terminate_calls + 1
  /\ UNCHANGED <<mcp_process, backend, req, spawn_count, os_environ, child_env,
                 slept, waited, logs>>

\* The child is still there after 5 seconds: wait(timeout=5) raises
\* subprocess.TimeoutExpired, which leaves start() and asyncio.run(); main's
\* finally clause calls terminate() and the process ends with the traceback.
WaitTimesOut ==
  /\ phase = "waiting"
  /\ backend # "exited"
  /\ waited = WAIT_TIMEOUT
  /\ phase' = "exited"
  /\ exit_status' = "TimeoutExpired"
  /\ terminate_calls' = terminate_calls + 1
  /\ UNCHANGED <<mcp_process, backend, req, spawn_count, os_environ, child_env,
                 slept, waited, logs>>

\* The child, while it lives, writes one more line to its stdout pipe.
ChildWrites ==
  /\ backend \in {"initialising", "running", "hung"}
  /\ Len(pipe) + Len(drained) < MaxLines
  /\ \E line \in LogLines : pipe' = Append(pipe, line)
  /\ UNCHANGED <<phase, mcp_process, backend, terminate_calls, req, supervisor,
                 drained, printed, log_thread>>

\* A log_mcp_output run as a task of the event loop in the place of a thread:
\* it advances only while the loop runs, that is once start() awaits in the
\* serving frontend.
log_mcp_output_on_event_loop ==
  /\ log_thread = "running"
  /\ phase = "serving"
  /\ pipe # <<>>
  /\ pipe' = Tail(pipe)
  /\ drained' = Append(drained, Head(pipe))
  /\ printed' = IF ShouldPrint(Head(pipe))
                THEN Append(printed, RStrip(Head(pipe)))
                ELSE printed
  /\ UNCHANGED <<phase, mcp_process, backend, terminate_calls, req, supervisor,
                 log_thread>>

\* One turn of the loop of log_mcp_output in the daemon thread: the next line
\* of the pipe is read, tested and printed without its trailing blanks.
log_mcp_output ==
  /\ log_thread = "running"
  /\ phase # "exited"
  /\ pipe # <<>>
  /\ pipe' = Tail(pipe)
  /\ drained' = Append(drained, Head(pipe))
  /\ printed' = IF ShouldPrint(Head(pipe))
                THEN Append(printed, RStrip(Head(pipe)))
                ELSE printed
  /\ UNCHANGED <<phase, mcp_process, backend, terminate_calls, req, supervisor,
                 log_thread>>

\* The child has exited and every line it wrote has been read: the iteration
\* over self.mcp_process.stdout meets the end of the stream, log_mcp_output
\* returns and the thread ends.
LogThreadEnds ==
  /\ log_thread = "running"
  /\ phase # "exited"
  /\ backend = "exited"
  /\ pipe = <<>>
  /\ log_thread' = "ended"
  /\ UNCHANGED <<phase, mcp_process, backend, terminate_calls, req, supervisor,
                 pipe, drained, printed>>

\* --------------------------------------------------------------- handlers

\* A health_handler that is run only when no forwarded request is waiting for
\* the back end, as behind a blocking call in proxy_handler.
health_handler_serialised(i, requests) ==
  /\ phase = "serving"
  /\ req[i].pc = "free"
  /\ \A j \in Slots : req[j].pc \notin {"awaiting", "reading"}
  /\ \E r \in requests :
       /\ Route(r.method, r.path) = "health"
       /\ req' = [req EXCEPT ![i] =
                    [FreeSlot EXCEPT !.pc = "done", !.handler = "health",
                                     !.method = r.method,
                                     !.path = r.path, !.query = r.query,
                                     !.resp = <<HealthResponse>>]]
  /\ UNCHANGED <<phase, mcp_process, backend, terminate_calls, supervisor, logs>>

\* A GET /health arrives on a free connection: health_handler has no await and
\* returns its response in one step.
health_handler(i, requests) ==
  /\ phase = "serving"
  /\ req[i].pc = "free"
  /\ \E r \in requests :
       /\ Route(r.method, r.path) = "health"
       /\ req' = [req EXCEPT ![i] =
                    [FreeSlot EXCEPT !.pc = "done", !.handler = "health",
                                     !.method = r.method,
                                     !.path = r.path, !.query = r.query,
                                     !.resp = <<HealthResponse>>]]
  /\ UNCHANGED <<phase, mcp_process, backend, terminate_calls, supervisor, logs>>

\* Any other request arrives: proxy_handler builds the target URL, reads the
\* body, filters the headers and issues the outbound request, then awaits the
\* response.
proxy_handler(i, requests) ==
  /\ phase = "serving"
  /\ req[i].pc = "free"
  /\ \E r \in requests :
       /\ Route(r.method, r.path) = "proxy"
       /\ req' = [req EXCEPT ![i] =
                    [FreeSlot EXCEPT !.pc = "awaiting", !.handler = "proxy",
                                     !.method = r.method,
                                     !.path = r.path, !.query = r.query,
                                     !.in_headers = r.headers,
                                     !.in_body = r.body,
                                     !.out = <<OutboundRequest(r)>>,
                                     !.attempts = 1]]
  /\ UNCHANGED <<phase, mcp_process, backend, terminate_calls, supervisor, logs>>

\* The running back end answers: session.request(...) yields the response
\* object (status line and headers). The request, its body and its headers are
\* not read again by the handler (but for a log line) and leave the state.
UpstreamAnswers(i, upstream) ==
  /\ req[i].pc = "awaiting"
  /\ backend = "running"
  /\ \E u \in upstream :
       req' = [req EXCEPT ![i] =
                 [@ EXCEPT !.pc = "reading",
                           !.attempts = @ + FollowUps(req[i].out[1].allow_redirects,
                                                      u.status),
                           !.method = "", !.path = "", !.query = "",
                           !.in_headers = <<>>, !.in_body = <<>>, !.out = <<>>,
                           !.up = <<[status |-> u.status, headers |-> u.headers,
                                     body |-> <<>>]>>]]
  /\ UNCHANGED <<phase, mcp_process, backend, terminate_calls, supervisor, logs>>

\* response.read() completes: the handler copies the headers and returns the
\* relayed response.
UpstreamBodyRead(i, bodies) ==
  /\ req[i].pc = "reading"
  /\ backend = "running"
  /\ \E b \in bodies :
       req' = [req EXCEPT ![i] =
                 [@ EXCEPT !.pc = "done",
                           !.event = "answered",
                           !.up = <<[req[i].up[1] EXCEPT !.body = <<b>>]>>,
                           !.resp = <<RelayedResponse(req[i].up[1].status,
                                                      req[i].up[1].headers, b)>>]]
  /\ UNCHANGED <<phase, mcp_process, backend, terminate_calls, supervisor, logs>>

\* The outbound attempt fails while the handler awaits the response or its
\* body: connection refused, reset, malformed response. A hung back end sends
\* nothing, not even a failure. The exception leaves the "async with" blocks:
\* the response object, if there was one, is gone.
UpstreamFails(i) ==
  /\ req[i].pc \in {"awaiting", "reading"}
  /\ backend # "hung"
  /\ req' = [req EXCEPT ![i] =
               [@ EXCEPT !.pc = "raised", !.event = "error",
                         !.raised_in = req[i].pc, !.up = <<>>,
                         !.method = "", !.path = "", !.query = "",
                         !.in_headers = <<>>, !.in_body = <<>>, !.out = <<>>]]
  /\ UNCHANGED <<phase, mcp_process, backend, terminate_calls, supervisor, logs>>

\* The total timeout of the client session expires while the handler awaits
\* the response or its body: asyncio.TimeoutError is raised in the handler.
TimerFires(i) ==
  /\ req[i].pc \in {"awaiting", "reading"}
  /\ req' = [req EXCEPT ![i] =
               [@ EXCEPT !.pc = "raised", !.event = "timeout",
                         !.raised_in = req[i].pc, !.up = <<>>,
                         !.method = "", !.path = "", !.query = "",
                         !.in_headers = <<>>, !.in_body = <<>>, !.out = <<>>]]
  /\ UNCHANGED <<phase, mcp_process, backend, terminate_calls, supervisor, logs>>

\* The except clause that matches the raised exception returns its response;
\* an exception no clause matches leaves the handler.
ExceptClause(i) ==
  /\ req[i].pc = "raised"
  /\ req' = [req EXCEPT ![i] =
               [@ EXCEPT !.pc = "done",
                         !.resp = IF Caught(req[i].event)
                                  THEN <<ErrorResponse(req[i].event)>>
                                  ELSE <<InternalServerError>>]]
  /\ UNCHANGED <<phase, mcp_process, backend, terminate_calls, supervisor, logs>>

\* The response has been sent; the connection takes the next request.
ResponseSent(i) ==
  /\ req[i].pc = "done"
  /\ req' = [req EXCEPT ![i] = FreeSlot]
  /\ UNCHANGED <<phase, mcp_process, backend, terminate_calls, supervisor, logs>>

\* ---------------------------------------------------------- specifications

Lifecycle ==
  \/ StartMcpServer
  \/ PopenFails
  \/ StoreHandle
  \/ Sleep
  \/ SleepReturns
  \/ SiteStart
  \/ SiteStartFails
  \/ BackendReady
  \/ BackendHang
  \/ BackendExit
  \/ Shutdown
  \/ KeyboardInterrupt
  \/ Wait
  \/ WaitReturns
  \/ WaitTimesOut

\* The frontend with MaxReq connections handled concurrently.
Next ==
  \/ Lifecycle
  \/ \E i \in Slots : health_handler(i, SysRequests)
  \/ \E i \in Slots : proxy_handler(i, SysRequests)
  \/ \E i \in Slots : UpstreamAnswers(i, SysUpstream)
  \/ \E i \in Slots : UpstreamBodyRead(i, UpstreamBodies)
  \/ \E i \in Slots : UpstreamFails(i)
  \/ \E i \in Slots : TimerFires(i)
  \/ \E i \in Slots : ExceptClause(i)
  \/ \E i \in Slots : ResponseSent(i)

Spec == Init /\ [][Next]_vars

\* One connection, with every header list of the bounded inputs.
NextForward ==
  \/ Lifecycle
  \/ health_handler(1, AllRequests)
  \/ proxy_handler(1, AllRequests)
  \/ UpstreamAnswers(1, AllUpstream)
  \/ UpstreamBodyRead(1, UpstreamBodies)
  \/ UpstreamFails(1)
  \/ TimerFires(1)
  \/ ExceptClause(1)
  \/ ResponseSent(1)

SpecForward == Init /\ [][NextForward]_vars

\* The application of a HealthProxy as the tests serve it: proxy.app is served
\* by the test server, start() is never run, self.mcp_process is a mock and
\* nothing listens on MCP_PORT.
InitTest ==
  /\ phase = "serving"
  /\ mcp_process = "mock"
  /\ backend = "none"
  /\ terminate_calls = 0
  /\ req = [i \in Slots |-> FreeSlot]
  /\ spawn_count = 0
  /\ os_environ = DefaultEnviron
  /\ child_env = <<>>
  /\ slept = 0
  /\ waited = 0
  /\ exit_status = "running"
  /\ pipe = <<>>
  /\ drained = <<>>
  /\ printed = <<>>
  /\ log_thread = "none"

\* The handlers of the test application. With no listener on MCP_PORT the
\* connection is refused at once: the attempt ends with an exception, never
\* with an answer and long before the 30 seconds of the timer.
NextTest ==
  \/ \E i \in Slots : health_handler(i, TestRequests)
  \/ \E i \in Slots : proxy_handler(i, TestRequests)
  \/ \E i \in Slots : UpstreamFails(i)
  \/ \E i \in Slots : ExceptClause(i)
  \/ \E i \in Slots : ResponseSent(i)

SpecTest == InitTest /\ [][NextTest]_vars

\* The supervisor, the child's output and the log thread.
NextLog ==
  \/ Lifecycle
  \/ ChildWrites
  \/ log_mcp_output
  \/ LogThreadEnds

SpecLog == Init /\ [][NextLog]_vars

\* The supervisor, the child's output, the log thread and one connection of the
\* frontend.
NextDrain ==
  \/ NextLog
  \/ health_handler(1, LiveRequests)
  \/ proxy_handler(1, LiveRequests)
  \/ UpstreamAnswers(1, SysUpstream)
  \/ UpstreamBodyRead(1, UpstreamBodies)
  \/ UpstreamFails(1)
  \/ TimerFires(1)
  \/ ExceptClause(1)
  \/ ResponseSent(1)

\* The operating system schedules the log thread whenever it can read, and the
\* main thread comes back from Popen to store the handle and start the thread.
SpecDrain ==
  /\ Init /\ [][NextDrain]_vars
  /\ WF_vars(StoreHandle)
  /\ WF_vars(log_mcp_output)
  /\ WF_vars(LogThreadEnds)

\* The supervisor alone, started in every environment.
SpecEnv == InitEnv /\ [][Lifecycle]_vars

\* The concurrent frontend on requests without headers or body.
NextLive ==
  \/ Lifecycle
  \/ \E i \in Slots : health_handler(i, LiveRequests)
  \/ \E i \in Slots : proxy_handler(i, LiveRequests)
  \/ \E i \in Slots : UpstreamAnswers(i, SysUpstream)
  \/ \E i \in Slots : UpstreamBodyRead(i, UpstreamBodies)
  \/ \E i \in Slots : UpstreamFails(i)
  \/ \E i \in Slots : TimerFires(i)
  \/ \E i \in Slots : ExceptClause(i)
  \/ \E i \in Slots : ResponseSent(i)

\* The event loop runs a handler whose exception is pending, the session's
\* timer fires when nothing else ended the attempt, and the blocking
\* wait(timeout=5) ends within its bound.
SpecLive ==
  /\ Init /\ [][NextLive]_vars
  /\ \A i \in Slots : WF_vars(TimerFires(i)) /\ WF_vars(ExceptClause(i))
  /\ WF_vars(Wait \/ WaitReturns \/ WaitTimesOut)

\* ------------------------------------------------------------------ claims

\* A connection holding a GET /health.
IsHealth(i) ==
  req[i].pc # "free" /\ req[i].method = "GET" /\ req[i].path = "/health"

\* A connection whose request proxy_handler forwards.
IsForwarded(i) ==
  req[i].pc # "free" /\ req[i].handler = "proxy"

\* Names equal up to letter case.
SameName(a, b) == Lower(a) = Lower(b)

\* Host, Connection, Keep-Alive, Transfer-Encoding, Upgrade.
RequestHopNames ==
  {NameHost, NameConnection, NameKeepAliveUpper, NameTransferEncoding, NameUpgrade}

\* Connection, Keep-Alive, Transfer-Encoding, Content-Encoding.
ResponseHopNames ==
  {NameConnection, NameKeepAliveUpper, NameTransferEncoding, NameContentEncoding}

\* C1: while the frontend serves, every GET /health is answered at once with
\* status 200 and the fixed JSON body, whatever the state of the back end; no
\* outbound request is issued for it, and the step that answers it changes
\* nothing but that connection's own response.
C1_HealthAlways200 ==
  /\ [](\A i \in Slots : IsHealth(i) =>
          /\ req[i].pc = "done"
          /\ req[i].resp[1].status = 200
          /\ req[i].resp[1].content_type = "application/json"
          /\ req[i].resp[1].body =
               "{\"status\": \"healthy\", \"service\": \"mcp-server\", \"proxy\": \"active\"}"
          /\ req[i].attempts = 0
          /\ req[i].out = <<>>)
  /\ [][\A i \in Slots :
          (req[i].pc = "free" /\ IsHealth(i)') =>
             /\ UNCHANGED <<phase, mcp_process, backend, terminate_calls>>
             /\ \A j \in Slots \ {i} : req'[j] = req[j]]_vars

\* C1 witness: a GET /health answered while the back end hangs and another
\* request is still waiting for it.
C1_Witness ==
  /\ backend = "hung"
  /\ \E i, j \in Slots :
       /\ IsHealth(i) /\ req[i].pc = "done"
       /\ req[j].pc = "awaiting"

\* C2: the headers handed to the outbound request never hold a name that is,
\* letter case aside, Host, Connection, Keep-Alive, Transfer-Encoding or
\* Upgrade.
C2_NoHopByHopInOutbound ==
  \A i \in Slots : req[i].out # <<>> =>
    \A n \in 1..Len(req[i].out[1].headers) :
      \A h \in RequestHopNames : ~SameName(req[i].out[1].headers[n][1], h)

\* C2 witness: an outbound request in flight whose inbound request carried a
\* hop-by-hop name not written in lower case, and a header that stays.
C2_Witness ==
  \E i \in Slots :
    /\ req[i].pc = "awaiting"
    /\ \E n \in 1..Len(req[i].in_headers) :
         req[i].in_headers[n][1] = NameKeepAliveUpper
    /\ Len(req[i].out[1].headers) = 1

\* C3: the headers of a relayed response never hold a name that is, letter
\* case aside, Connection, Keep-Alive, Transfer-Encoding or Content-Encoding.
C3_NoHopByHopInRelayed ==
  \A i \in Slots : (req[i].pc = "done" /\ req[i].event = "answered") =>
    \A n \in 1..Len(req[i].resp[1].headers) :
      \A h \in ResponseHopNames : ~SameName(req[i].resp[1].headers[n][1], h)

\* C3 witness: a relayed response whose upstream response carried
\* TRANSFER-ENCODING and a header that stays.
C3_Witness ==
  \E i \in Slots :
    /\ req[i].pc = "done" /\ req[i].event = "answered"
    /\ \E n \in 1..Len(req[i].up[1].headers) :
         req[i].up[1].headers[n][1] = NameTransferEncodingUpper
    /\ Len(req[i].resp[1].headers) = 1

\* C4 as stated: a request whose timeout expired is answered 504 "Gateway
\* Timeout", and no 504 is returned unless the timeout has fired.
C4_No504BeforeTimeout ==
  \A i \in Slots : req[i].pc = "done" =>
    /\ req[i].event = "timeout" =>
         /\ req[i].resp[1].status = 504
         /\ req[i].resp[1].body = "Gateway Timeout"
    /\ req[i].resp[1].status = 504 => req[i].event = "timeout"

\* C4 amended: a request whose timeout expired, before the response or while
\* its body was read, is answered 504 with the plain-text body "Gateway
\* Timeout" and none of the upstream headers; a 504 returned without the
\* timeout having fired is the back end's own 504, relayed after its body was
\* read.
C4_TimeoutGives504 ==
  \A i \in Slots : req[i].pc = "done" =>
    /\ req[i].event = "timeout" =>
         /\ req[i].resp[1].status = 504
         /\ req[i].resp[1].body = "Gateway Timeout"
         /\ req[i].resp[1].content_type = "text/plain"
         /\ req[i].resp[1].headers = <<>>
    /\ (req[i].resp[1].status = 504 /\ req[i].event # "timeout") =>
         /\ req[i].event = "answered"
         /\ req[i].up[1].status = 504
         /\ req[i].up[1].body = <<req[i].resp[1].body>>

\* C4 witness: the timeout fired while the body was being read, and the
\* request has its 504.
C4_Witness ==
  \E i \in Slots :
    /\ req[i].pc = "done" /\ req[i].event = "timeout"
    /\ req[i].raised_in = "reading"
    /\ req[i].resp[1].status = 504

\* C5: an outbound attempt that failed otherwise than by the timeout is
\* answered 502 with the plain-text body "Bad Gateway"; once the failure is
\* raised the answer needs no other event (the timer does not have to fire).
C5_FailureGives502 ==
  \A i \in Slots : req[i].event = "error" =>
    \/ req[i].pc = "raised" /\ ENABLED ExceptClause(i)
    \/ /\ req[i].pc = "done"
       /\ req[i].resp[1].status = 502
       /\ req[i].resp[1].body = "Bad Gateway"
       /\ req[i].resp[1].content_type = "text/plain"
       /\ req[i].resp[1].headers = <<>>

\* C5 witness: the back end has exited, the connection was refused and the
\* request has its 502.
C5_Witness ==
  \E i \in Slots :
    /\ backend = "exited"
    /\ req[i].pc = "done" /\ req[i].event = "error"
    /\ req[i].raised_in = "awaiting"
    /\ req[i].resp[1].status = 502

\* C6: a forwarded request has made exactly one outbound attempt, from the
\* moment it is issued to its answer, whatever the outcome.
C6_SingleAttempt ==
  \A i \in Slots : IsForwarded(i) => req[i].attempts = 1

\* C6 witness: a 302 of the back end relayed after one attempt.
C6_Witness ==
  \E i \in Slots :
    /\ req[i].pc = "done" /\ req[i].event = "answered"
    /\ req[i].up[1].status = 302
    /\ req[i].attempts = 1

\* C7: as long as the proxy process runs, a forwarded request in flight is
\* eventually answered; the answer is the relayed upstream response, a 502 or a
\* 504 (never the server's answer to an escaped exception); and the step that
\* answers a failed attempt leaves the frontend serving.
C7_AlwaysAnswered ==
  /\ \A i \in Slots :
       (req[i].pc \in {"awaiting", "reading", "raised"})
         ~> (req[i].pc = "done" \/ phase = "exited")
  /\ [](\A i \in Slots : (IsForwarded(i) /\ req[i].pc = "done") =>
          \/ /\ req[i].event = "answered"
             /\ req[i].resp[1].status = req[i].up[1].status
          \/ /\ req[i].event = "error"
             /\ req[i].resp[1].status = 502
          \/ /\ req[i].event = "timeout"
             /\ req[i].resp[1].status = 504)
  /\ [][\A i \in Slots :
          (req[i].pc = "raised" /\ req'[i].pc = "done") =>
             /\ phase' = "serving"
             /\ \A j \in Slots \ {i} : req'[j] = req[j]]_vars

\* C7 witness: one request answered 502 after a failure while a later request
\* is being forwarded.
C7_Witness ==
  \E i, j \in Slots :
    /\ req[i].pc = "done" /\ req[i].event = "error"
    /\ req[j].pc = "awaiting"
    /\ phase = "serving"

\* C8: a response the back end delivered completely is returned with the
\* upstream status and the upstream body, for every status; it is never
\* replaced by a 502 or 504 of the proxy.
C8_RelayedVerbatim ==
  \A i \in Slots :
    (req[i].up # <<>> /\ req[i].up[1].body # <<>>) =>
      /\ req[i].pc = "done"
      /\ req[i].event = "answered"
      /\ req[i].resp[1].status = req[i].up[1].status
      /\ <<req[i].resp[1].body>> = req[i].up[1].body

\* C8 witness: a 404 with a body relayed.
C8_Witness ==
  \E i \in Slots :
    /\ req[i].pc = "done" /\ req[i].event = "answered"
    /\ req[i].up[1].status = 404
    /\ req[i].up[1].body = <<"x">>
    /\ req[i].resp[1].status = 404

\* C9 as stated: every header line of the inbound request whose name is not a
\* request hop-by-hop name is among the outbound headers, name and value
\* unchanged.
C9_RequestHeadersKept ==
  \A i \in Slots : req[i].out # <<>> =>
    \A n \in 1..Len(req[i].in_headers) :
      (\A h \in RequestHopNames : ~SameName(req[i].in_headers[n][1], h)) =>
        req[i].in_headers[n] \in Range(req[i].out[1].headers)

\* C10 as stated: every header line of the upstream response whose name is
\* not a response hop-by-hop name is among the headers of the relayed
\* response, value unchanged, repeated names included.
C10_ResponseHeadersKept ==
  \A i \in Slots : (req[i].pc = "done" /\ req[i].event = "answered") =>
    \A n \in 1..Len(req[i].up[1].headers) :
      (\A h \in ResponseHopNames : ~SameName(req[i].up[1].headers[n][1], h)) =>
        req[i].up[1].headers[n] \in Range(req[i].resp[1].headers)

\* C11: every request whose path is not /health, whatever its method, is
\* forwarded with the same method to http://localhost:8052 followed by the
\* inbound path and query string unchanged, and with the inbound body: the
\* same body when there is one, none when there is none.
C11_ForwardedAsReceived ==
  \A i \in Slots :
    (req[i].pc # "free" /\ req[i].path \notin {"", "/health"}) =>
      /\ req[i].handler = "proxy"
      /\ req[i].pc = "awaiting"
      /\ req[i].out[1].method = req[i].method
      /\ req[i].out[1].url =
           <<"http://localhost:", <<"8", "0", "5", "2">>, req[i].path, req[i].query>>
      /\ req[i].out[1].data = req[i].in_body

\* A POST with a query string and a body has been forwarded: its body and its
\* query string are in the outbound request.
C11_Witness ==
  \E i \in Slots :
    /\ req[i].pc = "awaiting" /\ req[i].method = "POST"
    /\ req[i].query = "?x=1" /\ req[i].out[1].data = <<"b">>

\* C12: once a shutdown has been triggered (SIGINT, SIGTERM or
\* KeyboardInterrupt) with a launched child, terminate() is called on the child
\* exactly once over the whole shutdown, and the wait for the child's exit lasts
\* at most 5 seconds.
C12_TerminateExactlyOnce ==
  /\ terminate_calls <= 1
  /\ waited <= 5
  /\ (phase = "exited" /\ mcp_process = "child") => terminate_calls = 1

\* C13: whenever the child has been spawned, a SIGINT or SIGTERM that ends the
\* proxy, at whatever point of the launch, the settle delay, the binding or the
\* serving it arrives, has terminate() sent to the child before the exit.
C13_SignalTerminatesSpawnedChild ==
  (phase = "exited" /\ exit_status = "exit0" /\ spawn_count > 0) =>
    terminate_calls >= 1

\* C14: when the 5-second wait ends with the child still there, the shutdown
\* path returns normally: no error is raised out of it and the process ends
\* without waiting any longer for the child.
C14_GraceExpiryReturnsNormally ==
  /\ exit_status # "TimeoutExpired"
  /\ (phase = "exited" /\ waited = 5 /\ backend # "exited") =>
       exit_status \in {"returned", "exit0"}

\* C15: the child is spawned exactly once in the life of the proxy, also when
\* it exits early (it is neither watched nor restarted); its environment is the
\* inherited one but for ARCHON_MCP_PORT, which is "8052" and differs from the
\* public port 8051; the environment of the proxy itself is never modified.
C15_SpawnedOnceWithPortOverride ==
  /\ [](/\ spawn_count <= 1
        /\ (phase \in {"launched", "settling", "binding", "serving", "waiting"}
              => spawn_count = 1)
        /\ (spawn_count = 1) =>
             /\ child_env # <<>>
             /\ child_env[1]["ARCHON_MCP_PORT"] = << <<"8", "0", "5", "2">> >>
             /\ child_env[1]["ARCHON_MCP_PORT"] # <<Str(PROXY_PORT)>>
             /\ \A k \in EnvKeys \ {"ARCHON_MCP_PORT"} :
                  child_env[1][k] = os_environ[k])
  /\ [][os_environ' = os_environ]_vars

\* The child exited early while the frontend serves, in an environment that
\* had ARCHON_MCP_PORT set to the public port.
C15_Witness ==
  /\ phase = "serving" /\ backend = "exited" /\ spawn_count = 1
  /\ os_environ["ARCHON_MCP_PORT"] = <<Str(PROXY_PORT)>>
  /\ child_env # <<>>

\* C16: the frontend is never bound, and no request is ever accepted, before
\* the child has been spawned and the 2 seconds of the settle delay have fully
\* passed; once they have, the frontend binds whatever the state of the back
\* end, without any readiness probe.
C16_BindsOnlyAfterSettleDelay ==
  /\ (phase = "serving" \/ \E i \in Slots : req[i].pc # "free") =>
       (spawn_count = 1 /\ slept = 2)
  /\ phase \in {"created", "launched", "settling"} =>
       \A i \in Slots : req[i].pc = "free"
  /\ (phase = "settling" /\ slept = 2) => ENABLED SleepReturns
  /\ phase = "binding" => (slept = 2 /\ ENABLED SiteStart)

\* The frontend serves a request while the back end is still initialising.
C16_Witness ==
  /\ phase = "serving" /\ backend = "initialising" /\ slept = 2
  /\ \E i \in Slots : req[i].pc = "done"

\* C17: GET /health requests made at the same time each get their own
\* response, all with status 200, and a GET /health never waits for a
\* forwarded request that is still waiting for the back end: the handler can
\* run on any free connection whatever the other connections are doing.
C17_HealthNeverWaits ==
  /\ \A i \in Slots :
       IsHealth(i) => (req[i].pc = "done" /\ Len(req[i].resp) = 1
                       /\ req[i].resp[1].status = 200)
  /\ phase = "serving" =>
       \A i \in Slots :
         req[i].pc = "free" => ENABLED health_handler(i, SysRequests)

\* Every connection holds an answered GET /health at the same time.
C17_Witness ==
  \A i \in Slots : IsHealth(i) /\ req[i].resp[1].status = 200

RECURSIVE C18_Emitted(_)
\* The lines of a sequence that do not contain both "GET /health" and "404",
\* in their order, each without its trailing blanks.
C18_Emitted(ls) ==
  IF ls = <<>> THEN <<>>
  ELSE IF /\ Contains(Head(ls), <<"G", "E", "T", " ", "/", "h", "e", "a", "l", "t", "h">>)
          /\ Contains(Head(ls), <<"4", "0", "4">>)
       THEN C18_Emitted(Tail(ls))
       ELSE <<RStrip(Head(ls))>> \o C18_Emitted(Tail(ls))

\* C18: the log thread suppresses a line of the child exactly when the line
\* contains both "GET /health" and "404"; every other line it has read is
\* printed once, in the order of arrival.
C18_OnlyHealth404Suppressed ==
  printed = C18_Emitted(drained)

\* The thread has read MaxLines lines, one of them suppressed and one printed.
C18_Witness ==
  /\ Len(drained) = MaxLines
  /\ \E k \in 1..Len(drained) : drained[k] \in {LineHealth404, Line404Health}
  /\ \E k \in 1..Len(drained) : drained[k] \in {LineHealth200, LineMcp404}

\* C19: when launching the back end fails, the proxy goes on: the frontend
\* still comes up, every forwarded request is answered with 502 and GET /health
\* keeps answering 200.
C19_FrontendUpAfterLaunchFailure ==
  /\ exit_status # "OSError"
  /\ (spawn_count = 0 /\ phase = "exited") => exit_status = "exit0"
  /\ \A i \in Slots :
       (spawn_count = 0 /\ req[i].pc = "done") =>
         req[i].resp[1].status = IF IsHealth(i) THEN 200 ELSE 502

C21_EveryLineDrained ==
  /\ \A n \in 1..MaxLines :
       (Len(pipe) + Len(drained) >= n) ~> (Len(drained) >= n \/ phase = "exited")
  /\ [](( log_thread = "running" /\ pipe # <<>> /\ phase # "exited")
          => ENABLED log_mcp_output)
  /\ [](log_thread = "ended" => (backend = "exited" /\ pipe = <<>>))
  /\ (log_thread = "running" /\ backend = "exited")
       ~> (log_thread = "ended" \/ phase = "exited")
  /\ []((phase = "serving" /\ req[1].pc = "free") =>
          (ENABLED health_handler(1, LiveRequests)
           /\ ENABLED proxy_handler(1, LiveRequests)))
  /\ [](req[1].pc = "raised" => ENABLED ExceptClause(1))

\* Every line of the child has been read by the thread while a forwarded
\* request waits for a back end that hangs.
C21_Witness ==
  /\ req[1].pc = "awaiting" /\ backend = "hung"
  /\ Len(drained) = MaxLines /\ pipe = <<>>

\* C22: the back-end handle is written once, at startup, and the shutdown path
\* never runs concurrently with that write: in every state in which the
\* shutdown can run or has run, the handle is set exactly when a child has been
\* spawned.
C22_HandleSetIffSpawned ==
  (ENABLED Shutdown \/ phase = "exited") =>
    (mcp_process # "None" <=> spawn_count > 0)

\* C23: when the frontend fails to start after the child has been spawned, or
\* start() ends with another exception, terminate() has been sent to the child
\* when the process has exited; when no child was ever spawned, terminate() is
\* never attempted.
C23_TerminateOnFailedStart ==
  /\ (/\ phase = "exited"
      /\ exit_status \in {"OSError", "BindOSError", "TimeoutExpired"}
      /\ spawn_count > 0) => terminate_calls >= 1
  /\ spawn_count = 0 => terminate_calls = 0
  /\ (phase = "exited" /\ exit_status = "OSError") =>
       (spawn_count = 0 /\ mcp_process = "None")

\* The public port could not be bound after the child was spawned, and the
\* child has been sent terminate().
C23_Witness ==
  /\ phase = "exited" /\ exit_status = "BindOSError"
  /\ spawn_count = 1 /\ terminate_calls = 1

====
